---- MODULE Spec2Model ----
(***************************************************************************)
(* Model of src/src/models/graph.py: the product structure graph builder   *)
(* (create_product_structure_graph), the time-space network synthesizer    *)
(* (create_time_space_network) and the rank assignment of visualize_graph; *)
(* and of src/src/data_generation/generate_random_data.py: the BOM         *)
(* generator (generate_bom_data) within generate_all_random_data, as       *)
(* src/notebooks/test.py calls it.                                         *)
(*                                                                         *)
(* Spec          both builders, each called on its inputs                  *)
(* SpecScenario  the synthesizer on the events of one production run       *)
(* SpecViz       the builder followed by visualize_graph on its graph      *)
(* SpecGen       the data generator, its random draws being choices        *)
(*                                                                         *)
(* Python values are modelled as follows.                                  *)
(*   dict            [keys |-> sequence of keys in insertion order,        *)
(*                    val  |-> function from key to value]                 *)
(*   keyword attrs   a function from attribute name to value               *)
(*   nx.DiGraph      [node |-> dict id -> attrs, adj |-> dict <<u,v>> ->   *)
(*                    attrs]                                               *)
(*   number          [v |-> integer value, f |-> TRUE iff it is a float]   *)
(*                   (1 and 1.0 compare equal and format differently;      *)
(*                   times stay in the range where float arithmetic is     *)
(*                   exact)                                                *)
(*   a BOM record / an event: a function from the field names that are     *)
(*                   present to their values (a missing key is a KeyError) *)
(***************************************************************************)
EXTENDS Integers, Sequences, FiniteSets, TLC

\* ------------------------------------------------------------- bounds
\* Longest list of BOM records handed to create_product_structure_graph.
MaxRecords == 2
\* Longest list of events handed to create_time_space_network.
MaxEvents == 3

Parts == {"A", "B", "C"}
Quantities == {1, 2}
Scraps == {1}
EventNodes == {"A", "B"}
EventTypes == {"start", "restart"}
\* Event times: the integers IntTimes and the floats FloatTimes (2.0).
IntTimes == {1, 2, 3}
FloatTimes == {2}

\* ------------------------------------------------------- Python dicts
EmptyDict == [keys |-> <<>>, val |-> <<>>]

Has(d, k) == k \in DOMAIN d.val

\* d[k] = x: a new key goes last, an existing key keeps its place.
Put(d, k, x) ==
    [keys |-> IF Has(d, k) THEN d.keys ELSE Append(d.keys, k),
     val  |-> [y \in (DOMAIN d.val) \cup {k} |-> IF y = k THEN x ELSE d.val[y]]]

\* attrs.update(more)
Update(attrs, more) ==
    [a \in (DOMAIN attrs) \cup (DOMAIN more) |->
        IF a \in DOMAIN more THEN more[a] ELSE attrs[a]]

\* ------------------------------------------------------- nx.DiGraph
DiGraph == [node |-> EmptyDict, adj |-> EmptyDict]

add_node(g, n, attrs) ==
    [g EXCEPT !.node =
        IF Has(g.node, n) THEN Put(g.node, n, Update(g.node.val[n], attrs))
        ELSE Put(g.node, n, attrs)]

\* add_edge creates the endpoints it does not find, without attributes, and
\* updates the attributes of an edge that exists.
add_edge(g, u, v, attrs) ==
    LET n1 == IF Has(g.node, u) THEN g.node ELSE Put(g.node, u, <<>>)
        n2 == IF Has(n1, v) THEN n1 ELSE Put(n1, v, <<>>)
        e  == <<u, v>>
    IN  [node |-> n2,
         adj  |-> IF Has(g.adj, e) THEN Put(g.adj, e, Update(g.adj.val[e], attrs))
                  ELSE Put(g.adj, e, attrs)]

Nodes(g) == DOMAIN g.node.val
Edges(g) == DOMAIN g.adj.val

\* ------------------------------------------------------- inputs
\* A BOM record holds Assembly, Component and QuantityPer, and Scrap or not.
WellFormedRecords ==
    [Assembly: Parts, Component: Parts, QuantityPer: Quantities, Scrap: Scraps]
    \cup [Assembly: Parts, Component: Parts, QuantityPer: Quantities]

\* Records that lack one required field.
MalformedRecords ==
    {[Component |-> "B", QuantityPer |-> 1],
     [Assembly |-> "A", QuantityPer |-> 1],
     [Assembly |-> "A", Component |-> "B"]}

BomEntries == WellFormedRecords \cup MalformedRecords

SeqsUpTo(S, n) == UNION {[1..k -> S] : k \in 0..n}

BomInputs == SeqsUpTo(BomEntries, MaxRecords)

\* ------------------------------------- create_product_structure_graph
\* RolePass that keeps only the role a part has in the last record naming it.
RECURSIVE RolePassLastRole(_, _, _)
RolePassLastRole(bom, k, roles) ==
    IF k > Len(bom) THEN roles
    ELSE LET r1 == Put(roles, bom[k].Assembly, {"assembly"})
             r2 == Put(r1, bom[k].Component, {"component"})
         IN  RolePassLastRole(bom, k + 1, r2)

\* RolePass that registers the Assembly of each record only.
RECURSIVE RolePassAssembliesOnly(_, _, _)
RolePassAssembliesOnly(bom, k, roles) ==
    IF k > Len(bom) THEN roles
    ELSE LET assembly == bom[k].Assembly
             r1 == IF Has(roles, assembly) THEN roles ELSE Put(roles, assembly, {})
         IN  RolePassAssembliesOnly(bom, k + 1,
                 Put(r1, assembly, r1.val[assembly] \cup {"assembly"}))

\* The first pass, records k.. of bom: the roles each part plays.
RECURSIVE RolePass(_, _, _)
RolePass(bom, k, roles) ==
    IF k > Len(bom) THEN roles
    ELSE LET assembly == bom[k].Assembly
             component == bom[k].Component
             r1 == IF Has(roles, assembly) THEN roles ELSE Put(roles, assembly, {})
             r2 == IF Has(r1, component) THEN r1 ELSE Put(r1, component, {})
             r3 == Put(r2, assembly, r2.val[assembly] \cup {"assembly"})
             r4 == Put(r3, component, r3.val[component] \cup {"component"})
         IN  RolePass(bom, k + 1, r4)

\* bom_entry['Assembly'] or bom_entry['Component'] raises KeyError.
RolePassRaises(bom) ==
    \E k \in 1..Len(bom) :
        "Assembly" \notin DOMAIN bom[k] \/ "Component" \notin DOMAIN bom[k]

\* NodeType with the test for both roles dropped.
NodeTypeFirstRole(roles) ==
    IF "assembly" \in roles THEN "assembly" ELSE "component"

NodeType(roles) ==
    IF "assembly" \in roles /\ "component" \in roles THEN "subassembly"
    ELSE IF "assembly" \in roles THEN "assembly"
    ELSE "component"

\* The node pass, entries k.. of node_roles in insertion order.
RECURSIVE NodePass(_, _, _)
NodePass(roles, k, g) ==
    IF k > Len(roles.keys) THEN g
    ELSE LET node == roles.keys[k]
         IN  NodePass(roles, k + 1,
                      add_node(g, node, [type |-> NodeType(roles.val[node])]))

\* bom_entry['QuantityPer'] raises KeyError.
EdgeStepRaises(bom_entry) == "QuantityPer" \notin DOMAIN bom_entry

\* bom_entry.get('Scrap', 0)
GetScrap(bom_entry) ==
    IF "Scrap" \in DOMAIN bom_entry THEN bom_entry.Scrap ELSE 0

\* EdgeStep that leaves an edge it finds as it is.
EdgeStepKeepFirst(g, bom_entry) ==
    IF Has(g.adj, <<bom_entry.Assembly, bom_entry.Component>>) THEN g
    ELSE add_edge(g, bom_entry.Assembly, bom_entry.Component,
                  [quantity |-> bom_entry.QuantityPer, scrap |-> GetScrap(bom_entry)])

\* EdgeStep that also links the component back to the assembly.
EdgeStepBothWays(g, bom_entry) ==
    LET attrs == [quantity |-> bom_entry.QuantityPer, scrap |-> GetScrap(bom_entry)]
    IN  add_edge(add_edge(g, bom_entry.Assembly, bom_entry.Component, attrs),
                 bom_entry.Component, bom_entry.Assembly, attrs)

\* One iteration of the edge pass.
EdgeStep(g, bom_entry) ==
    add_edge(g, bom_entry.Assembly, bom_entry.Component,
             [quantity |-> bom_entry.QuantityPer, scrap |-> GetScrap(bom_entry)])

\* ------------------------------------------------------- numbers
Int_(n) == [v |-> n, f |-> FALSE]
Float_(n) == [v |-> n, f |-> TRUE]

Times == {Int_(n) : n \in IntTimes} \cup {Float_(n) : n \in FloatTimes}

\* a == b, a < b and a - b of Python numbers: 1 == 1.0, and a difference is a
\* float as soon as one operand is.
NumEq(a, b) == a.v = b.v
NumLt(a, b) == a.v < b.v
NumSub(a, b) == [v |-> a.v - b.v, f |-> a.f \/ b.f]

\* f"{time}": 1 formats as "1" and 1.0 as "1.0".
Str(t) == IF t.f THEN ToString(t.v) \o ".0" ELSE ToString(t.v)

\* sorted(xs, key=...), keys[j] being the key of xs[j]: element a goes after
\* every element with a smaller key and after the earlier ones with an equal
\* key (the sort is stable).
SortedPlace(keys, a) ==
    1 + Cardinality({b \in 1..Len(keys) :
                        NumLt(keys[b], keys[a])
                        \/ (NumEq(keys[b], keys[a]) /\ b < a)})

Sorted(xs, keys) ==
    [j \in 1..Len(xs) |-> xs[CHOOSE a \in 1..Len(xs) : SortedPlace(keys, a) = j]]

\* ------------------------------------------------------- event inputs
WellFormedEvents == [node: EventNodes, time: Times, event_type: EventTypes]

\* Events that lack one required field.
MalformedEvents ==
    {[node |-> "A", time |-> Int_(1)],
     [node |-> "A", event_type |-> "start"],
     [time |-> Int_(1), event_type |-> "start"]}

EventInputs == SeqsUpTo(WellFormedEvents \cup MalformedEvents, MaxEvents)

\* ------------------------------------------ create_time_space_network
\* sorted(events, key=lambda x: x['time']) raises KeyError.
SortRaises(evs) == \E k \in 1..Len(evs) : "time" \notin DOMAIN evs[k]

SortEvents(evs) == Sorted(evs, [j \in 1..Len(evs) |-> evs[j].time])

\* event['node'] or event['event_type'] raises KeyError.
NodeLoopRaises(evs) ==
    \E k \in 1..Len(evs) :
        "node" \notin DOMAIN evs[k] \/ "event_type" \notin DOMAIN evs[k]

\* f"{node}_{time}"
TsName(node, time) == node \o "_" \o Str(time)

\* The node loop, events k.. of the sorted events.
RECURSIVE NodeLoop(_, _, _)
NodeLoop(evs, k, tsn) ==
    IF k > Len(evs) THEN tsn
    ELSE LET node == evs[k].node
             time == evs[k].time
             event_type == evs[k].event_type
             ts_node == TsName(node, time)
         IN  NodeLoop(evs, k + 1,
                      add_node(tsn, ts_node,
                               [original_node |-> node, time |-> time,
                                event_type |-> event_type]))

\* nodes_by_original, from the time-space nodes k.. in insertion order.
RECURSIVE GroupLoop(_, _, _)
GroupLoop(tsn, k, nbo) ==
    IF k > Len(tsn.node.keys) THEN nbo
    ELSE LET ts_node == tsn.node.keys[k]
             original == tsn.node.val[ts_node].original_node
             n1 == IF Has(nbo, original) THEN nbo ELSE Put(nbo, original, <<>>)
         IN  GroupLoop(tsn, k + 1,
                       Put(n1, original, Append(n1.val[original], ts_node)))

\* SortByTime with reverse=True.
SortByTimeReversed(tsn, ts_nodes) ==
    LET up == Sorted(ts_nodes,
                     [j \in 1..Len(ts_nodes) |-> tsn.node.val[ts_nodes[j]].time])
    IN  [j \in 1..Len(up) |-> up[Len(up) + 1 - j]]

\* sorted(ts_nodes, key=lambda x: TSN.nodes[x]['time'])
SortByTime(tsn, ts_nodes) ==
    Sorted(ts_nodes, [j \in 1..Len(ts_nodes) |-> tsn.node.val[ts_nodes[j]].time])

\* ChainLoop over range(len(sorted_ts_nodes) - 2).
RECURSIVE ChainLoopShort(_, _, _)
ChainLoopShort(sorted_ts_nodes, k, tsn) ==
    IF k > Len(sorted_ts_nodes) - 2 THEN tsn
    ELSE LET from_node == sorted_ts_nodes[k]
             to_node == sorted_ts_nodes[k + 1]
             lead_time == NumSub(tsn.node.val[to_node].time,
                                 tsn.node.val[from_node].time)
         IN  ChainLoopShort(sorted_ts_nodes, k + 1,
                 add_edge(tsn, from_node, to_node, [lead_time |-> lead_time]))

\* for i in range(len(sorted_ts_nodes) - 1), from index k on.
RECURSIVE ChainLoop(_, _, _)
ChainLoop(sorted_ts_nodes, k, tsn) ==
    IF k > Len(sorted_ts_nodes) - 1 THEN tsn
    ELSE LET from_node == sorted_ts_nodes[k]
             to_node == sorted_ts_nodes[k + 1]
             from_time == tsn.node.val[from_node].time
             to_time == tsn.node.val[to_node].time
             lead_time == NumSub(to_time, from_time)
         IN  ChainLoop(sorted_ts_nodes, k + 1,
                       add_edge(tsn, from_node, to_node, [lead_time |-> lead_time]))

\* The chronological pass, original nodes k.. of nodes_by_original.
RECURSIVE ChronoLoop(_, _, _)
ChronoLoop(nbo, k, tsn) ==
    IF k > Len(nbo.keys) THEN tsn
    ELSE ChronoLoop(nbo, k + 1,
                    ChainLoop(SortByTime(tsn, nbo.val[nbo.keys[k]]), 1, tsn))

\* product_graph.edges(): the edges of each node, in node order.
RECURSIVE EdgeList(_, _)
EdgeList(g, k) ==
    IF k > Len(g.node.keys) THEN <<>>
    ELSE SelectSeq(g.adj.keys, LAMBDA e : e[1] = g.node.keys[k])
         \o EdgeList(g, k + 1)

\* nodes_by_original.get(u, [])
GetNodes(nbo, u) == IF Has(nbo, u) THEN nbo.val[u] ELSE <<>>

\* NextV that keeps scanning, ending on the last later v_node.
NextVLatest(tsn, v_ts_nodes, u_time) ==
    LET later == {j \in 1..Len(v_ts_nodes) :
                     NumLt(u_time, tsn.node.val[v_ts_nodes[j]].time)}
    IN  IF later = {} THEN 0 ELSE CHOOSE j \in later : \A m \in later : j >= m

\* NextV with v_time >= u_time for v_time > u_time.
NextVNotStrict(tsn, v_ts_nodes, u_time) ==
    LET later == {j \in 1..Len(v_ts_nodes) :
                     ~NumLt(tsn.node.val[v_ts_nodes[j]].time, u_time)}
    IN  IF later = {} THEN 0 ELSE CHOOSE j \in later : \A m \in later : j <= m

\* NextV that takes the first v_node whose time differs from u_time.
NextVOtherTime(tsn, v_ts_nodes, u_time) ==
    LET other == {j \in 1..Len(v_ts_nodes) :
                     ~NumEq(u_time, tsn.node.val[v_ts_nodes[j]].time)}
    IN  IF other = {} THEN 0 ELSE CHOOSE j \in other : \A m \in other : j <= m

\* The scan for the next v_node after u_time: its index in v_ts_nodes, or 0 when
\* the scan ends with next_v_node = None.
NextV(tsn, v_ts_nodes, u_time) ==
    LET later == {j \in 1..Len(v_ts_nodes) :
                     NumLt(u_time, tsn.node.val[v_ts_nodes[j]].time)}
    IN  IF later = {} THEN 0 ELSE CHOOSE j \in later : \A m \in later : j <= m

\* SourceLoop that gives a v_node one causal edge at most.
RECURSIVE SourceLoopOncePerTarget(_, _, _, _)
SourceLoopOncePerTarget(u_ts_nodes, v_ts_nodes, k, tsn) ==
    IF k > Len(u_ts_nodes) THEN tsn
    ELSE LET u_node == u_ts_nodes[k]
             u_time == tsn.node.val[u_node].time
             n == NextV(tsn, v_ts_nodes, u_time)
             taken == n # 0 /\ \E e \in Edges(tsn) :
                          /\ e[2] = v_ts_nodes[n]
                          /\ "relationship" \in DOMAIN tsn.adj.val[e]
         IN  IF n # 0 /\ ~taken
             THEN SourceLoopOncePerTarget(u_ts_nodes, v_ts_nodes, k + 1,
                      add_edge(tsn, u_node, v_ts_nodes[n],
                          [lead_time |-> NumSub(tsn.node.val[v_ts_nodes[n]].time,
                                                u_time),
                           relationship |-> "assembly-component"]))
             ELSE SourceLoopOncePerTarget(u_ts_nodes, v_ts_nodes, k + 1, tsn)

\* for u_node in u_ts_nodes, from index k on.
RECURSIVE SourceLoop(_, _, _, _)
SourceLoop(u_ts_nodes, v_ts_nodes, k, tsn) ==
    IF k > Len(u_ts_nodes) THEN tsn
    ELSE LET u_node == u_ts_nodes[k]
             u_time == tsn.node.val[u_node].time
             n == NextV(tsn, v_ts_nodes, u_time)
         IN  IF n # 0 /\ v_ts_nodes[n] # ""
             THEN LET next_v_node == v_ts_nodes[n]
                      v_time == tsn.node.val[next_v_node].time
                      lead_time == NumSub(v_time, u_time)
                  IN  SourceLoop(u_ts_nodes, v_ts_nodes, k + 1,
                          add_edge(tsn, u_node, next_v_node,
                                   [lead_time |-> lead_time,
                                    relationship |-> "assembly-component"]))
             ELSE SourceLoop(u_ts_nodes, v_ts_nodes, k + 1, tsn)

\* The causal pass, edges k.. of the product graph.
RECURSIVE CausalLoop(_, _, _, _)
CausalLoop(edges, nbo, k, tsn) ==
    IF k > Len(edges) THEN tsn
    ELSE LET u == edges[k][1]
             v == edges[k][2]
             u_ts_nodes == SortByTime(tsn, GetNodes(nbo, u))
             v_ts_nodes == SortByTime(tsn, GetNodes(nbo, v))
         IN  CausalLoop(edges, nbo, k + 1,
                        SourceLoop(u_ts_nodes, v_ts_nodes, 1, tsn))

\* create_product_structure_graph(bom) for a bom that raises nothing.
RECURSIVE EdgePass(_, _, _)
EdgePass(bom, k, g) ==
    IF k > Len(bom) THEN g ELSE EdgePass(bom, k + 1, EdgeStep(g, bom[k]))

ProductGraphOf(bom) ==
    EdgePass(bom, 1, NodePass(RolePass(bom, 1, EmptyDict), 1, DiGraph))

Rec(a, c) == [Assembly |-> a, Component |-> c, QuantityPer |-> 1]

\* The BOMs whose graphs are handed to create_time_space_network: no edge, one
\* edge, a self-loop, a cycle, and a self-loop next to an edge.
ProductBoms ==
    {<<>>, <<Rec("A", "B")>>, <<Rec("A", "A")>>,
     <<Rec("A", "B"), Rec("B", "A")>>, <<Rec("A", "A"), Rec("A", "B")>>}

ProductGraphs == {ProductGraphOf(bom) : bom \in ProductBoms}

VARIABLES pc, bom_data, node_roles, G, i, result,
          product_graph, events, TSN, nodes_by_original,
          roots, root_k, queue, visited,
          supply_type_df, root_assembly, used_components, bom_df, asm_k, data

vars == <<pc, bom_data, node_roles, G, i, result,
          product_graph, events, TSN, nodes_by_original,
          roots, root_k, queue, visited,
          supply_type_df, root_assembly, used_components, bom_df, asm_k, data>>

builder_vars == <<bom_data, node_roles, G, i>>
tsn_vars == <<product_graph, events, TSN, nodes_by_original>>
viz_vars == <<roots, root_k, queue, visited>>
gen_vars == <<supply_type_df, root_assembly, used_components, bom_df, asm_k, data>>

\* No value returned yet (or ever, after an exception).
None == <<>>

Init ==
    /\ pc = "idle"
    /\ bom_data = <<>>
    /\ node_roles = EmptyDict
    /\ G = DiGraph
    /\ i = 0
    /\ result = None
    /\ product_graph = DiGraph
    /\ events = <<>>
    /\ TSN = DiGraph
    /\ nodes_by_original = EmptyDict
    /\ roots = <<>>
    /\ root_k = 0
    /\ queue = <<>>
    /\ visited = {}
    /\ supply_type_df = <<>>
    /\ root_assembly = ""
    /\ used_components = {}
    /\ bom_df = <<>>
    /\ asm_k = 0
    /\ data = None

\* A caller calls create_product_structure_graph(bom_data).
CallBuilder ==
    /\ pc = "idle"
    /\ \E bom \in BomInputs : bom_data' = bom
    /\ pc' = "g_roles"
    /\ UNCHANGED <<node_roles, G, i, result, tsn_vars, viz_vars, gen_vars>>

FirstPass ==
    /\ pc = "g_roles"
    /\ IF RolePassRaises(bom_data)
       THEN pc' = "g_raised" /\ UNCHANGED node_roles
       ELSE pc' = "g_nodes" /\ node_roles' = RolePass(bom_data, 1, EmptyDict)
    /\ UNCHANGED <<bom_data, G, i, result, tsn_vars, viz_vars, gen_vars>>

AddNodes ==
    /\ pc = "g_nodes"
    /\ G' = NodePass(node_roles, 1, DiGraph)
    /\ i' = 1
    /\ pc' = "g_edges"
    /\ UNCHANGED <<bom_data, node_roles, result, tsn_vars, viz_vars, gen_vars>>

\* AddEdge that skips a record without QuantityPer.
AddEdgeSkipMalformed ==
    /\ pc = "g_edges"
    /\ i <= Len(bom_data)
    /\ G' = IF EdgeStepRaises(bom_data[i]) THEN G ELSE EdgeStep(G, bom_data[i])
    /\ i' = i + 1
    /\ pc' = pc
    /\ UNCHANGED <<bom_data, node_roles, result, tsn_vars, viz_vars, gen_vars>>

AddEdge ==
    /\ pc = "g_edges"
    /\ i <= Len(bom_data)
    /\ IF EdgeStepRaises(bom_data[i])
       THEN pc' = "g_raised" /\ UNCHANGED <<G, i>>
       ELSE /\ G' = EdgeStep(G, bom_data[i])
            /\ i' = i + 1
            /\ pc' = pc
    /\ UNCHANGED <<bom_data, node_roles, result, tsn_vars, viz_vars, gen_vars>>

ReturnG ==
    /\ pc = "g_edges"
    /\ i > Len(bom_data)
    /\ result' = <<G>>
    /\ pc' = "g_done"
    /\ UNCHANGED <<bom_data, node_roles, G, i, tsn_vars, viz_vars, gen_vars>>

\* A caller calls create_time_space_network(product_graph, events).
CallSynthesizer ==
    /\ pc = "idle"
    /\ \E g \in ProductGraphs : product_graph' = g
    /\ \E evs \in EventInputs : events' = evs
    /\ pc' = "t_nodes"
    /\ UNCHANGED <<builder_vars, result, TSN, nodes_by_original,
                   viz_vars, gen_vars>>

\* CreateNodes with events.sort(key=...) for sorted(events, key=...).
CreateNodesSortInPlace ==
    /\ pc = "t_nodes"
    /\ IF SortRaises(events) \/ NodeLoopRaises(events)
       THEN pc' = "t_raised" /\ UNCHANGED <<TSN, events>>
       ELSE /\ pc' = "t_chrono"
            /\ events' = SortEvents(events)
            /\ TSN' = NodeLoop(SortEvents(events), 1, DiGraph)
    /\ UNCHANGED <<builder_vars, result, product_graph, nodes_by_original,
                   viz_vars, gen_vars>>

\* Lines 256-274: the sort and the node loop.
CreateNodes ==
    /\ pc = "t_nodes"
    /\ IF SortRaises(events) \/ NodeLoopRaises(events)
       THEN pc' = "t_raised" /\ UNCHANGED TSN
       ELSE pc' = "t_chrono" /\ TSN' = NodeLoop(SortEvents(events), 1, DiGraph)
    /\ UNCHANGED <<builder_vars, result, product_graph, events, nodes_by_original,
                   viz_vars, gen_vars>>

\* Lines 276-294: the grouping and the chronological edges.
LinkChronological ==
    /\ pc = "t_chrono"
    /\ LET nbo == GroupLoop(TSN, 1, EmptyDict)
       IN  /\ nodes_by_original' = nbo
           /\ TSN' = ChronoLoop(nbo, 1, TSN)
    /\ pc' = "t_causal"
    /\ UNCHANGED <<builder_vars, result, product_graph, events,
                   viz_vars, gen_vars>>

\* LinkCausal that relates every two original nodes that have events, whatever
\* the product graph holds.
LinkCausalAllOriginals ==
    /\ pc = "t_causal"
    /\ LET keys == nodes_by_original.keys
           n == Len(keys)
           pairs == [j \in 1..(n * n) |->
                        <<keys[((j - 1) \div n) + 1], keys[((j - 1) % n) + 1]>>]
           tsn == CausalLoop(pairs, nodes_by_original, 1, TSN)
       IN  TSN' = tsn /\ result' = <<tsn>>
    /\ pc' = "t_done"
    /\ UNCHANGED <<builder_vars, product_graph, events, nodes_by_original,
                   viz_vars, gen_vars>>

\* Lines 296-321: the causal edges and the return.
LinkCausal ==
    /\ pc = "t_causal"
    /\ LET tsn == CausalLoop(EdgeList(product_graph, 1), nodes_by_original, 1, TSN)
       IN  TSN' = tsn /\ result' = <<tsn>>
    /\ pc' = "t_done"
    /\ UNCHANGED <<builder_vars, product_graph, events, nodes_by_original,
                   viz_vars, gen_vars>>

Next ==
    \/ CallBuilder
    \/ FirstPass
    \/ AddNodes
    \/ AddEdge
    \/ ReturnG
    \/ CallSynthesizer
    \/ CreateNodes
    \/ LinkChronological
    \/ LinkCausal

Spec == Init /\ [][Next]_vars

\* ------------------------------------------------ a production scenario
\* Events of one production run: assembly A starts at 0 and completes at 5,
\* component B starts at 6.
ScenarioEvents ==
    {[node |-> "A", time |-> Int_(0), event_type |-> "start"],
     [node |-> "A", time |-> Int_(5), event_type |-> "complete"],
     [node |-> "B", time |-> Int_(6), event_type |-> "start"]}

\* A caller calls create_time_space_network with events of the run, listed in
\* any order and number.
CallScenario ==
    /\ pc = "idle"
    /\ \E g \in ProductGraphs : product_graph' = g
    /\ \E evs \in SeqsUpTo(ScenarioEvents, MaxEvents) : events' = evs
    /\ pc' = "t_nodes"
    /\ UNCHANGED <<builder_vars, result, TSN, nodes_by_original,
                   viz_vars, gen_vars>>

NextScenario ==
    \/ CallScenario
    \/ CreateNodes
    \/ LinkChronological
    \/ LinkCausal

SpecScenario == Init /\ [][NextScenario]_vars

\* ------------------------------------------------------ visualize_graph
\* The rank assignment stops being followed at this rank.
MaxRank == 4

\* G.in_degree(n)
InDegree(g, n) == Cardinality({e \in Edges(g) : e[2] = n})

\* G.successors(n), in the order the edges were added.
RECURSIVE Successors(_, _, _)
Successors(g, n, k) ==
    IF k > Len(g.adj.keys) THEN <<>>
    ELSE (IF g.adj.keys[k][1] = n THEN <<g.adj.keys[k][2]>> ELSE <<>>)
         \o Successors(g, n, k + 1)

\* Lines 140-146: the nodes without incoming edge, or else the nodes of least
\* in-degree, in node order.
Roots(g) ==
    LET no_in == SelectSeq(g.node.keys, LAMBDA n : InDegree(g, n) = 0)
        min_in_degree ==
            CHOOSE d \in {InDegree(g, n) : n \in Nodes(g)} :
                \A n \in Nodes(g) : d <= InDegree(g, n)
    IN  IF no_in # <<>> THEN no_in
        ELSE SelectSeq(g.node.keys, LAMBDA n : InDegree(g, n) = min_in_degree)

\* G.nodes[n]['rank'] = r
SetRank(g, n, r) == [g EXCEPT !.node.val[n] = Update(@, [rank |-> r])]

RankOf(g, n) == g.node.val[n].rank

\* for node in G.nodes(): G.nodes[node]['rank'] = -1, from node k on.
RECURSIVE InitRankLoop(_, _)
InitRankLoop(g, k) ==
    IF k > Len(g.node.keys) THEN g
    ELSE InitRankLoop(SetRank(g, g.node.keys[k], -1), k + 1)

\* Lines 163-170: for child in G.successors(current), from child k on; st
\* holds the graph, the visited set and the queue.
RECURSIVE ChildLoop(_, _, _, _)
ChildLoop(st, children, k, rank) ==
    IF k > Len(children) THEN st
    ELSE LET child == children[k]
             new_rank == rank + 1
         IN  IF child \notin st.visited \/ new_rank > RankOf(st.g, child)
             THEN ChildLoop([g |-> SetRank(st.g, child, new_rank),
                             visited |-> st.visited \cup {child},
                             queue |-> Append(st.queue, <<child, new_rank>>)],
                            children, k + 1, rank)
             ELSE ChildLoop(st, children, k + 1, rank)

\* A caller passes the graph the builder returned to visualize_graph; lines
\* 140-146 find the roots, and min() of no in-degree raises ValueError.
CallVisualize ==
    /\ pc = "g_done"
    /\ IF Nodes(G) = {}
       THEN pc' = "v_raised" /\ UNCHANGED roots
       ELSE pc' = "v_init" /\ roots' = Roots(G)
    /\ UNCHANGED <<bom_data, node_roles, G, i, result, tsn_vars, gen_vars,
                   root_k, queue, visited>>

\* Lines 150-151.
InitRanks ==
    /\ pc = "v_init"
    /\ G' = InitRankLoop(G, 1)
    /\ root_k' = 1
    /\ pc' = "v_root"
    /\ UNCHANGED <<bom_data, node_roles, i, result, tsn_vars, gen_vars,
                   roots, queue, visited>>

\* Lines 154-159: the next root starts its search.
NextRoot ==
    /\ pc = "v_root"
    /\ root_k <= Len(roots)
    /\ G' = SetRank(G, roots[root_k], 0)
    /\ queue' = <<<<roots[root_k], 0>>>>
    /\ visited' = {roots[root_k]}
    /\ pc' = "v_bfs"
    /\ UNCHANGED <<bom_data, node_roles, i, result, tsn_vars, gen_vars,
                   roots, root_k>>

\* Lines 161-170: one turn of while queue.
PopQueue ==
    /\ pc = "v_bfs"
    /\ queue # <<>>
    /\ LET current == Head(queue)[1]
           rank == Head(queue)[2]
           st == ChildLoop([g |-> G, visited |-> visited, queue |-> Tail(queue)],
                           Successors(G, current, 1), 1, rank)
       IN  /\ rank < MaxRank
           /\ G' = st.g
           /\ visited' = st.visited
           /\ queue' = st.queue
    /\ pc' = pc
    /\ UNCHANGED <<bom_data, node_roles, i, result, tsn_vars, gen_vars,
                   roots, root_k>>

\* The queue is empty: the search of this root is over.
QueueEmpty ==
    /\ pc = "v_bfs"
    /\ queue = <<>>
    /\ root_k' = root_k + 1
    /\ pc' = "v_root"
    /\ UNCHANGED <<bom_data, node_roles, G, i, result, tsn_vars, gen_vars,
                   roots, queue, visited>>

\* Every root is done: the ranks are assigned (line 172 on lays the nodes out
\* by rank and draws them).
RanksDone ==
    /\ pc = "v_root"
    /\ root_k > Len(roots)
    /\ pc' = "v_ranked"
    /\ UNCHANGED <<bom_data, node_roles, G, i, result, tsn_vars,
                   viz_vars, gen_vars>>

NextViz ==
    \/ CallBuilder
    \/ FirstPass
    \/ AddNodes
    \/ AddEdge
    \/ ReturnG
    \/ CallVisualize
    \/ InitRanks
    \/ NextRoot
    \/ PopQueue
    \/ QueueEmpty
    \/ RanksDone

SpecViz == Init /\ [][NextViz]_vars

\* Graphs of four parts for the rank assignment: the builder is followed as
\* one step, on record lists up to this length.
MaxRankRecords == 3

RankParts == {"A", "B", "C", "D"}

RankBoms == SeqsUpTo({Rec(a, c) : a, c \in RankParts}, MaxRankRecords)

\* create_product_structure_graph(bom_data) from call to return, for records
\* that raise nothing.
BuildGraph ==
    /\ pc = "idle"
    /\ \E bom \in RankBoms :
           /\ bom_data' = bom
           /\ node_roles' = RolePass(bom, 1, EmptyDict)
           /\ G' = ProductGraphOf(bom)
           /\ i' = Len(bom) + 1
           /\ result' = <<ProductGraphOf(bom)>>
    /\ pc' = "g_done"
    /\ UNCHANGED <<tsn_vars, viz_vars, gen_vars>>

NextRank ==
    \/ BuildGraph
    \/ CallVisualize
    \/ InitRanks
    \/ NextRoot
    \/ PopQueue
    \/ QueueEmpty
    \/ RanksDone

SpecRank == Init /\ [][NextRank]_vars

\* ------------------------------------------- generate_random_data.py
\* generate_all_random_data is called with num_parts up to this.
MaxParts == 4

\* f"P{i:03d}"
PartName(k) == IF k < 10 THEN "P00" \o ToString(k)
               ELSE IF k < 100 THEN "P0" \o ToString(k)
               ELSE "P" \o ToString(k)

\* generate_supply_type_data: parts P001.. with Make or Buy drawn for each.
SupplyTypeTables ==
    UNION {{[k \in 1..n |-> [Part_Name |-> PartName(k), SupplyType |-> t[k]]] :
               t \in [1..n -> {"Make", "Buy"}]} : n \in 0..MaxParts}

\* random.randint(1, 10) or (1, 5) and round(random.uniform(0, 0.15), 2), in
\* hundredths: no step reads them, one value of each range stands for them.
GenQuantities == {3}
GenScraps == {5}

PartNames(df) == [k \in 1..Len(df) |-> df[k].Part_Name]

\* supply_type_df[supply_type_df['SupplyType'] == 'Make']['Part_Name'].tolist()
MakeParts(df) == PartNames(SelectSeq(df, LAMBDA r : r.SupplyType = "Make"))

\* supply_type_df['Part_Name'].tolist()
AllParts(df) == PartNames(df)

\* [p for p in make_parts if p != root_assembly]
RegularAssemblies(df, root) == SelectSeq(MakeParts(df), LAMBDA q : q # root)

\* AvailableComponents that leaves the root among the candidates.
AvailableComponentsWithRoot(df, assembly, root) ==
    SelectSeq(AllParts(df), LAMBDA q : q # assembly)

\* [p for p in all_parts if p != assembly and p != root_assembly]
AvailableComponents(df, assembly, root) ==
    SelectSeq(AllParts(df), LAMBDA q : q # assembly /\ q # root)

Range(s) == {s[k] : k \in 1..Len(s)}

\* random.sample(population, k): k different elements in any order.
Samples(population, k) ==
    {s \in [1..k -> Range(population)] : \A a, b \in 1..k : s[a] = s[b] => a = b}

Min(a, b) == IF a < b THEN a ELSE b

\* The records appended for one assembly and a list of components, with the
\* quantity and the scrap drawn for each.
BomRows(assembly, components, qty_per, scrap) ==
    [k \in 1..Len(components) |->
        [Assembly |-> assembly, Component |-> components[k],
         QuantityPer |-> qty_per[k], Scrap |-> scrap[k]]]

\* One draw per record.
Draws(components, values) == [1..Len(components) -> values]

\* generate_all_random_data(num_parts) is called: lines 441-450 make the part
\* table, the supply types and the part sources.
GenerateAll ==
    /\ pc = "idle"
    /\ \E df \in SupplyTypeTables : supply_type_df' = df
    /\ pc' = "gen_bom"
    /\ UNCHANGED <<builder_vars, result, tsn_vars, viz_vars,
                   root_assembly, used_components, bom_df, asm_k, data>>

\* generate_bom_data, lines 186-209: no Make part raises ValueError, else the
\* root is drawn from the Make parts.
ChooseRoot ==
    /\ pc = "gen_bom"
    /\ IF MakeParts(supply_type_df) = <<>>
       THEN pc' = "gen_raised" /\ UNCHANGED <<root_assembly, asm_k>>
       ELSE /\ \E root \in Range(MakeParts(supply_type_df)) : root_assembly' = root
            /\ asm_k' = 1
            /\ pc' = "gen_regular"
    /\ UNCHANGED <<builder_vars, result, tsn_vars, viz_vars,
                   supply_type_df, used_components, bom_df, data>>

\* Lines 212-230, one regular assembly: its components are sampled.
RegularAssembly ==
    /\ pc = "gen_regular"
    /\ asm_k <= Len(RegularAssemblies(supply_type_df, root_assembly))
    /\ LET assembly == RegularAssemblies(supply_type_df, root_assembly)[asm_k]
           available_components ==
               AvailableComponents(supply_type_df, assembly, root_assembly)
       IN  \E num_components \in 2..5 :
           \E selected_components \in
                  Samples(available_components,
                          Min(num_components, Len(available_components))) :
           \E qty_per \in Draws(selected_components, GenQuantities),
              scrap \in Draws(selected_components, GenScraps) :
               /\ bom_df' = bom_df \o BomRows(assembly, selected_components,
                                              qty_per, scrap)
               /\ used_components' = used_components \cup Range(selected_components)
    /\ asm_k' = asm_k + 1
    /\ pc' = pc
    /\ UNCHANGED <<builder_vars, result, tsn_vars, viz_vars,
                   supply_type_df, root_assembly, data>>

\* Lines 233-240: every regular assembly becomes a component of the root.
LinkToRoot ==
    /\ pc = "gen_regular"
    /\ asm_k > Len(RegularAssemblies(supply_type_df, root_assembly))
    /\ LET regular_assemblies == RegularAssemblies(supply_type_df, root_assembly)
       IN  \E qty_per \in Draws(regular_assemblies, GenQuantities),
              scrap \in Draws(regular_assemblies, GenScraps) :
               /\ bom_df' = bom_df \o BomRows(root_assembly, regular_assemblies,
                                              qty_per, scrap)
               /\ used_components' = used_components \cup Range(regular_assemblies)
    /\ pc' = "gen_unused"
    /\ UNCHANGED <<builder_vars, result, tsn_vars, viz_vars,
                   supply_type_df, root_assembly, asm_k, data>>

\* Lines 243-259: the parts no record uses become components of the root, and
\* the table is returned to generate_all_random_data.
LinkUnused ==
    /\ pc = "gen_unused"
    /\ LET unused_components ==
               SelectSeq(AllParts(supply_type_df),
                         LAMBDA q : q \notin used_components /\ q # root_assembly)
       IN  \E qty_per \in Draws(unused_components, GenQuantities),
              scrap \in Draws(unused_components, GenScraps) :
               bom_df' = bom_df \o BomRows(root_assembly, unused_components,
                                           qty_per, scrap)
    /\ pc' = "gen_done"
    /\ UNCHANGED <<builder_vars, result, tsn_vars, viz_vars,
                   supply_type_df, root_assembly, used_components, asm_k, data>>

\* Lines 452-469: the history tables are made, and the function returns None.
ReturnAll ==
    /\ pc = "gen_done"
    /\ data' = None
    /\ pc' = "all_done"
    /\ UNCHANGED <<builder_vars, result, tsn_vars, viz_vars,
                   supply_type_df, root_assembly, used_components, bom_df, asm_k>>

\* notebooks/test.py, lines 50-69: the script subscripts the returned value,
\* which raises TypeError on None, and builds the product graph from bom_df.
ScriptBuildsGraph ==
    /\ pc = "all_done"
    /\ IF data = None
       THEN pc' = "s_raised" /\ UNCHANGED bom_data
       ELSE pc' = "g_roles" /\ bom_data' = data[1].bom_df
    /\ UNCHANGED <<node_roles, G, i, result, tsn_vars, viz_vars, gen_vars>>

NextGen ==
    \/ GenerateAll
    \/ ChooseRoot
    \/ RegularAssembly
    \/ LinkToRoot
    \/ LinkUnused
    \/ ReturnAll
    \/ ScriptBuildsGraph

SpecGen == Init /\ [][NextGen]_vars
\* ===================================================================
\* Properties of create_product_structure_graph
\* ===================================================================
\* The graph create_product_structure_graph returned.
ReturnedG == result[1]

IsAssemblyIn(bom, n) == \E k \in 1..Len(bom) : bom[k].Assembly = n
IsComponentIn(bom, n) == \E k \in 1..Len(bom) : bom[k].Component = n
PartsIn(bom) == {n \in Parts : IsAssemblyIn(bom, n) \/ IsComponentIn(bom, n)}
PairsIn(bom) == {<<bom[k].Assembly, bom[k].Component>> : k \in 1..Len(bom)}
TypeOf(g, n) == g.node.val[n].type

\* C1: in the returned graph every node has exactly one type, one of assembly,
\* subassembly and component; it is subassembly iff the part is the Assembly of
\* some record and the Component of some record, assembly if it is only ever an
\* Assembly, component if it is only ever a Component.
C1_RoleClassification ==
    pc = "g_done" =>
        \A n \in Nodes(ReturnedG) :
            /\ DOMAIN ReturnedG.node.val[n] = {"type"}
            /\ TypeOf(ReturnedG, n) \in {"assembly", "subassembly", "component"}
            /\ TypeOf(ReturnedG, n) = "subassembly"
                   <=> IsAssemblyIn(bom_data, n) /\ IsComponentIn(bom_data, n)
            /\ IsAssemblyIn(bom_data, n) /\ ~IsComponentIn(bom_data, n)
                   => TypeOf(ReturnedG, n) = "assembly"
            /\ IsComponentIn(bom_data, n) /\ ~IsAssemblyIn(bom_data, n)
                   => TypeOf(ReturnedG, n) = "component"

\* A returned graph with the three types side by side, and one whose only
\* record is self-referential.
C1_Witness ==
    /\ pc = "g_done"
    /\ \/ {TypeOf(ReturnedG, n) : n \in Nodes(ReturnedG)}
              = {"assembly", "subassembly", "component"}
       \/ /\ Len(bom_data) = 1
          /\ bom_data[1].Assembly = bom_data[1].Component
          /\ TypeOf(ReturnedG, bom_data[1].Assembly) = "subassembly"

\* The last record of bom for the pair e.
LastRecord(bom, e) ==
    bom[CHOOSE k \in 1..Len(bom) :
            /\ <<bom[k].Assembly, bom[k].Component>> = e
            /\ \A m \in (k + 1)..Len(bom) :
                   <<bom[m].Assembly, bom[m].Component>> # e]

\* C2: the edge of a pair carries the quantity and the scrap of the last record
\* of that pair; when that record has no Scrap, the scrap is 0.
C2_LastRecordWins ==
    pc = "g_done" =>
        \A e \in Edges(ReturnedG) :
            LET last == LastRecord(bom_data, e)
                attrs == ReturnedG.adj.val[e]
            IN  /\ DOMAIN attrs = {"quantity", "scrap"}
                /\ attrs.quantity = last.QuantityPer
                /\ attrs.scrap = IF "Scrap" \in DOMAIN last THEN last.Scrap ELSE 0

\* Two records of one pair, the first with a scrap, the last without one and
\* with another quantity.
C2_Witness ==
    /\ pc = "g_done"
    /\ Len(bom_data) = 2
    /\ bom_data[1].Assembly = bom_data[2].Assembly
    /\ bom_data[1].Component = bom_data[2].Component
    /\ "Scrap" \in DOMAIN bom_data[1]
    /\ "Scrap" \notin DOMAIN bom_data[2]
    /\ bom_data[1].QuantityPer # bom_data[2].QuantityPer
    /\ ReturnedG.adj.val[<<bom_data[1].Assembly, bom_data[1].Component>>].scrap = 0

\* C8: the returned graph has one node per distinct part of the records and one
\* edge per distinct (Assembly, Component) pair, never two for one pair.
C8_NodeAndEdgeCount ==
    pc = "g_done" =>
        /\ Nodes(ReturnedG) = PartsIn(bom_data)
        /\ Len(ReturnedG.node.keys) = Cardinality(PartsIn(bom_data))
        /\ Edges(ReturnedG) = PairsIn(bom_data)
        /\ Len(ReturnedG.adj.keys) = Cardinality(PairsIn(bom_data))
        /\ Cardinality(Edges(ReturnedG)) <= Cardinality(PairsIn(bom_data))

\* Two records of one pair: fewer edges than records.
C8_Witness ==
    /\ pc = "g_done"
    /\ Len(bom_data) = 2
    /\ Cardinality(Edges(ReturnedG)) = 1
    /\ Cardinality(Nodes(ReturnedG)) = 2
\* A record that lacks a required field.
MalformedRecord(bom_entry) ==
    ~({"Assembly", "Component", "QuantityPer"} \subseteq DOMAIN bom_entry)

\* An event that lacks a required field.
MalformedEvent(event) ==
    ~({"node", "time", "event_type"} \subseteq DOMAIN event)

HasMalformedRecord == \E k \in 1..Len(bom_data) : MalformedRecord(bom_data[k])
HasMalformedEvent == \E k \in 1..Len(events) : MalformedEvent(events[k])

BuilderCalled == pc \in {"g_roles", "g_nodes", "g_edges", "g_raised", "g_done"}
SynthesizerCalled == pc \in {"t_nodes", "t_chrono", "t_causal", "t_raised", "t_done"}

\* C9: a call of either function on an input with a malformed element, wherever
\* it sits, never returns and leaves the caller without a result, partial or
\* not: the builder is in its passes with a malformed record still ahead of
\* its edge loop, or has raised; the synthesizer is before its sort, or has
\* raised.  A call that raises had a malformed element.
C9_MalformedInputRaises ==
    /\ BuilderCalled /\ HasMalformedRecord
           => /\ pc \in {"g_roles", "g_nodes", "g_edges", "g_raised"}
              /\ result = None
              /\ pc \in {"g_nodes", "g_edges"}
                     => \A k \in 1..Len(bom_data) :
                            {"Assembly", "Component"} \subseteq DOMAIN bom_data[k]
              /\ pc = "g_edges"
                     => \E k \in i..Len(bom_data) : MalformedRecord(bom_data[k])
    /\ SynthesizerCalled /\ HasMalformedEvent
           => /\ pc \in {"t_nodes", "t_raised"}
              /\ result = None
    /\ pc = "g_raised" => HasMalformedRecord /\ result = None
    /\ pc = "t_raised" => HasMalformedEvent /\ result = None

\* The builder has raised on a last record that lacks only QuantityPer, after
\* the nodes and the first edge went into its graph; the caller holds nothing.
C9_Witness ==
    /\ pc = "g_raised"
    /\ Len(bom_data) = 2
    /\ ~MalformedRecord(bom_data[1])
    /\ "QuantityPer" \notin DOMAIN bom_data[2]
    /\ Edges(G) # {}
    /\ result = None

\* The synthesizer has raised on a last event that lacks its event_type.
C9_WitnessEvents ==
    /\ pc = "t_raised"
    /\ Len(events) = 3
    /\ ~MalformedEvent(events[1])
    /\ "event_type" \notin DOMAIN events[3]
    /\ result = None

\* ===================================================================
\* Properties of create_time_space_network
\* ===================================================================
\* The network create_time_space_network returned.
ReturnedTSN == result[1]

OriginalOf(tsn, n) == tsn.node.val[n].original_node
TimeOf(tsn, n) == tsn.node.val[n].time
\* The time-space nodes of the original node o.
TsNodesOf(tsn, o) == {n \in Nodes(tsn) : OriginalOf(tsn, n) = o}
\* The edges that carry relationship = 'assembly-component'.
CausalEdges(tsn) ==
    {e \in Edges(tsn) :
        /\ "relationship" \in DOMAIN tsn.adj.val[e]
        /\ tsn.adj.val[e].relationship = "assembly-component"}
\* The edges between two time-space nodes of one original node.
SameOriginalEdges(tsn) ==
    {e \in Edges(tsn) : OriginalOf(tsn, e[1]) = OriginalOf(tsn, e[2])}

\* The v-nodes strictly later than the time-space node n.
LaterNodes(tsn, n, v) ==
    {m \in TsNodesOf(tsn, v) : NumLt(TimeOf(tsn, n), TimeOf(tsn, m))}

\* C3: for a product edge (u, v) and a time-space node n of u, the network has
\* exactly one causal edge from n to a v-node when a v-node is strictly later
\* than n, to a v-node of minimum time among the later ones, and none when no
\* v-node is strictly later.
C3_NearestLaterTarget ==
    pc = "t_done" =>
        \A e \in Edges(product_graph) :
            \A n \in TsNodesOf(ReturnedTSN, e[1]) :
                LET later == LaterNodes(ReturnedTSN, n, e[2])
                    out == {x \in CausalEdges(ReturnedTSN) :
                               x[1] = n /\ x[2] \in TsNodesOf(ReturnedTSN, e[2])}
                IN  IF later = {} THEN out = {}
                    ELSE /\ Cardinality(out) = 1
                         /\ \A x \in out :
                                /\ x[2] \in later
                                /\ \A m \in later :
                                       ~NumLt(TimeOf(ReturnedTSN, m),
                                              TimeOf(ReturnedTSN, x[2]))

\* A product edge between two parts with a u-node that has two later v-nodes
\* at two times, and a product edge with a u-node that has no later v-node.
C3_Witness ==
    /\ pc = "t_done"
    /\ \E e \in Edges(product_graph) :
           /\ e[1] # e[2]
           /\ \E n \in TsNodesOf(ReturnedTSN, e[1]) :
                  \E m1, m2 \in LaterNodes(ReturnedTSN, n, e[2]) :
                      NumLt(TimeOf(ReturnedTSN, m1), TimeOf(ReturnedTSN, m2))
    /\ \E e \in Edges(product_graph) :
           \E n \in TsNodesOf(ReturnedTSN, e[1]) :
               LaterNodes(ReturnedTSN, n, e[2]) = {}

\* C4: a causal edge goes from a u-node to a v-node for a product edge (u, v),
\* its target is strictly later than its source, and its lead_time is the
\* difference of the two times, strictly positive.
C4_CausalEdgeShape ==
    pc = "t_done" =>
        \A x \in CausalEdges(ReturnedTSN) :
            LET lead_time == ReturnedTSN.adj.val[x].lead_time
                delta == TimeOf(ReturnedTSN, x[2]).v - TimeOf(ReturnedTSN, x[1]).v
            IN  /\ <<OriginalOf(ReturnedTSN, x[1]), OriginalOf(ReturnedTSN, x[2])>>
                       \in Edges(product_graph)
                /\ NumLt(TimeOf(ReturnedTSN, x[1]), TimeOf(ReturnedTSN, x[2]))
                /\ lead_time.v = delta
                /\ lead_time.v > 0

\* Two causal edges into one target, over a product edge between two parts.
C4_Witness ==
    /\ pc = "t_done"
    /\ \E x, y \in CausalEdges(ReturnedTSN) :
           /\ x # y
           /\ x[2] = y[2]
           /\ OriginalOf(ReturnedTSN, x[1]) # OriginalOf(ReturnedTSN, x[2])

\* The chronological links of a network: the pairs of time-space nodes of one
\* original node that follow each other in its time-sorted list.
ChronologicalLinks(tsn, nbo) ==
    UNION {LET sorted_ts_nodes == SortByTime(tsn, nbo.val[o])
           IN  {<<sorted_ts_nodes[j], sorted_ts_nodes[j + 1]>> :
                   j \in 1..(Len(sorted_ts_nodes) - 1)} : o \in DOMAIN nbo.val}

\* C5, as claimed: in the returned network, for every product graph, self-loops
\* included, every causal edge carries the relationship attribute and no edge
\* that links two consecutive time-space nodes of one original node does.
C5_Claim ==
    pc = "t_done" =>
        /\ \A e \in Edges(product_graph) :
               \A n \in TsNodesOf(ReturnedTSN, e[1]) :
                   LaterNodes(ReturnedTSN, n, e[2]) # {}
                       => \E x \in CausalEdges(ReturnedTSN) :
                              x[1] = n /\ x[2] \in LaterNodes(ReturnedTSN, n, e[2])
        /\ \A e \in ChronologicalLinks(ReturnedTSN, nodes_by_original) :
               "relationship" \notin DOMAIN ReturnedTSN.adj.val[e]

\* C6, as claimed: one time-space node per distinct (node, time) pair of the
\* events, carrying the pair as its original_node and time and the event_type
\* of the last event with that pair in input order.
C6_Claim ==
    pc = "t_done" =>
        LET pairs == {<<events[k].node, events[k].time.v>> : k \in 1..Len(events)}
        IN  /\ Cardinality(Nodes(ReturnedTSN)) = Cardinality(pairs)
            /\ \A k \in 1..Len(events) :
                   \E n \in Nodes(ReturnedTSN) :
                       /\ OriginalOf(ReturnedTSN, n) = events[k].node
                       /\ NumEq(TimeOf(ReturnedTSN, n), events[k].time)
                       /\ (\A m \in (k + 1)..Len(events) :
                              ~(events[m].node = events[k].node
                                /\ NumEq(events[m].time, events[k].time)))
                          => ReturnedTSN.node.val[n].event_type = events[k].event_type
\* The orders of the time-space nodes of o by ascending time.
AscendingOrders(tsn, o) ==
    LET N == TsNodesOf(tsn, o)
    IN  {s \in [1..Cardinality(N) -> N] :
            /\ \A a, b \in DOMAIN s : a # b => s[a] # s[b]
            /\ \A a, b \in DOMAIN s :
                   a < b => ~NumLt(TimeOf(tsn, s[b]), TimeOf(tsn, s[a]))}

ChainOf(s) == {<<s[j], s[j + 1]>> : j \in 1..(Len(s) - 1)}

\* The edge e of tsn has the lead_time of a chronological edge: the difference
\* of its endpoints' times, not negative, with no time-space node of the same
\* original node strictly between its endpoints.
ChronologicalEdgeOK(tsn, e) ==
    /\ tsn.adj.val[e].lead_time.v = TimeOf(tsn, e[2]).v - TimeOf(tsn, e[1]).v
    /\ tsn.adj.val[e].lead_time.v >= 0
    /\ \A m \in TsNodesOf(tsn, OriginalOf(tsn, e[1])) :
           ~(NumLt(TimeOf(tsn, e[1]), TimeOf(tsn, m))
             /\ NumLt(TimeOf(tsn, m), TimeOf(tsn, e[2])))

Originals(tsn) == {OriginalOf(tsn, n) : n \in Nodes(tsn)}

\* C7: when the chronological pass is over, the edges of the network are, for
\* every original node with k time-space nodes, the k-1 edges of one chain
\* through them in ascending time, each with lead_time = the difference of the
\* times >= 0 and no node of that original strictly between its endpoints; a
\* single time-space node gets no edge.  The returned network still holds that
\* chain, and no other edge without a relationship.
C7_ChronologicalChain ==
    /\ pc = "t_causal" =>
           /\ Edges(TSN) = SameOriginalEdges(TSN)
           /\ \A e \in Edges(TSN) : DOMAIN TSN.adj.val[e] = {"lead_time"}
           /\ \A o \in Originals(TSN) :
                  LET Eo == {e \in Edges(TSN) : OriginalOf(TSN, e[1]) = o}
                  IN  /\ Cardinality(Eo) = Cardinality(TsNodesOf(TSN, o)) - 1
                      /\ \E s \in AscendingOrders(TSN, o) : Eo = ChainOf(s)
                      /\ \A e \in Eo : ChronologicalEdgeOK(TSN, e)
    /\ pc = "t_done" =>
           \A o \in Originals(ReturnedTSN) :
               \E s \in AscendingOrders(ReturnedTSN, o) :
                   /\ ChainOf(s) \subseteq Edges(ReturnedTSN)
                   /\ \A e \in ChainOf(s) : ChronologicalEdgeOK(ReturnedTSN, e)
                   /\ \A e \in Edges(ReturnedTSN) \ CausalEdges(ReturnedTSN) :
                          OriginalOf(ReturnedTSN, e[1]) = o => e \in ChainOf(s)

\* The chronological pass has chained three time-space nodes of one original
\* node with two edges.
C7_Witness ==
    /\ pc = "t_causal"
    /\ \E o \in Originals(TSN) :
           /\ Cardinality(TsNodesOf(TSN, o)) = 3
           /\ Cardinality({e \in Edges(TSN) : OriginalOf(TSN, e[1]) = o}) = 2

\* The time-space nodes of parts that are no node of the product graph.
ForeignNodes(tsn) ==
    {n \in Nodes(tsn) : OriginalOf(tsn, n) \notin Nodes(product_graph)}

\* C10: an event whose node is no node of the product graph raises nothing and
\* yields a time-space node; every edge at such a node joins it to a time-space
\* node of the same original node, and none is a causal edge.
C10_ForeignEventAccepted ==
    /\ pc = "t_raised" => HasMalformedEvent
    /\ pc = "t_done" =>
           /\ \A k \in 1..Len(events) :
                  events[k].node \notin Nodes(product_graph)
                      => \E n \in ForeignNodes(ReturnedTSN) :
                             /\ OriginalOf(ReturnedTSN, n) = events[k].node
                             /\ NumEq(TimeOf(ReturnedTSN, n), events[k].time)
           /\ \A e \in Edges(ReturnedTSN) :
                  e[1] \in ForeignNodes(ReturnedTSN) \/ e[2] \in ForeignNodes(ReturnedTSN)
                      => /\ OriginalOf(ReturnedTSN, e[1]) = OriginalOf(ReturnedTSN, e[2])
                         /\ e \notin CausalEdges(ReturnedTSN)
                         /\ "relationship" \notin DOMAIN ReturnedTSN.adj.val[e]

\* A returned network with a chronological edge between two events of a part
\* outside a product graph that has edges, and an event of a part inside it.
C10_Witness ==
    /\ pc = "t_done"
    /\ Edges(product_graph) # {}
    /\ \E e \in Edges(ReturnedTSN) : e[1] \in ForeignNodes(ReturnedTSN)
    /\ \E n \in Nodes(ReturnedTSN) : n \notin ForeignNodes(ReturnedTSN)

\* ===================================================================
\* Order of the records, frame and edge-pass invariants
\* ===================================================================
\* The orders in which n records can be listed.
Orders(n) ==
    {p \in [1..n -> 1..n] : \A a, b \in 1..n : p[a] = p[b] => a = b}

Permute(s, p) == [k \in 1..Len(s) |-> s[p[k]]]

\* C12: for every permutation of the record list the builder returns the same
\* node set, the same type for every node and the same set of
\* (Assembly, Component) edges as for the order it was given.
C12_PermutationInvariant ==
    pc = "g_done" =>
        \A p \in Orders(Len(bom_data)) :
            LET g == ProductGraphOf(Permute(bom_data, p))
            IN  /\ Nodes(g) = Nodes(ReturnedG)
                /\ \A n \in Nodes(g) : TypeOf(g, n) = TypeOf(ReturnedG, n)
                /\ Edges(g) = Edges(ReturnedG)

\* A returned graph of two different records where one part is the Component
\* of the first and the Assembly of the second, and a returned graph of two
\* records of one pair whose quantities differ.
C12_Witness ==
    /\ pc = "g_done"
    /\ Len(bom_data) = 2
    /\ \/ /\ bom_data[1].Component = bom_data[2].Assembly
          /\ bom_data[1].Assembly # bom_data[2].Assembly
          /\ TypeOf(ReturnedG, bom_data[2].Assembly) = "subassembly"
       \/ /\ PairsIn(bom_data) = {<<bom_data[1].Assembly, bom_data[1].Component>>}
          /\ bom_data[1].QuantityPer # bom_data[2].QuantityPer

\* A scan of v_times that never moves its pointer back: for the u times from
\* index k on, in the order given, the pointer ptr moves forward to the first
\* v time later than the u time; the pick is the pointer, or 0 past the end.
RECURSIVE PointerScan(_, _, _, _)
PointerScan(u_times, v_times, k, ptr) ==
    IF k > Len(u_times) THEN <<>>
    ELSE LET stops == {j \in ptr..Len(v_times) : NumLt(u_times[k], v_times[j])}
             p == IF stops = {} THEN Len(v_times) + 1
                  ELSE CHOOSE j \in stops : \A m \in stops : j <= m
         IN  <<IF p > Len(v_times) THEN 0 ELSE p>>
             \o PointerScan(u_times, v_times, k + 1, p)

\* The time-space nodes of original node n as the causal pass lists them.
SortedNodesOf(n) == SortByTime(TSN, GetNodes(nodes_by_original, n))

TimesOf(ts_nodes) == [j \in 1..Len(ts_nodes) |-> TSN.node.val[ts_nodes[j]].time]

\* The picks of the code's scan for the u-nodes us of a product edge and its
\* v-nodes vs: for each u-node the index of its target in vs, 0 for no target.
NaivePicks(us, vs) ==
    [k \in 1..Len(us) |-> NextV(TSN, vs, TSN.node.val[us[k]].time)]

\* A pick as a position, no target counting as past the end of the v list.
Position(pick, vs) == IF pick = 0 THEN Len(vs) + 1 ELSE pick

\* C14: for every product edge (u, v) the picks of the code's scan never move
\* back as the u-nodes are taken in ascending time, and a scan with one
\* forward-only pointer makes the same picks; the causal edges of the returned
\* network are those picks.
C14_MonotonePicks ==
    pc = "t_done" =>
        \A e \in Edges(product_graph) :
            LET us == SortedNodesOf(e[1])
                vs == SortedNodesOf(e[2])
                picks == NaivePicks(us, vs)
            IN  /\ \A k \in 1..(Len(us) - 1) :
                       Position(picks[k], vs) <= Position(picks[k + 1], vs)
                /\ picks = PointerScan(TimesOf(us), TimesOf(vs), 1, 1)
                /\ \A k \in 1..Len(us) :
                       picks[k] # 0 =>
                           /\ <<us[k], vs[picks[k]]>> \in Edges(ReturnedTSN)
                           /\ "relationship" \in
                                  DOMAIN ReturnedTSN.adj.val[<<us[k], vs[picks[k]]>>]

\* A returned network where the pointer has to move: a product edge with two
\* u-nodes whose targets differ, the second further down the v list; or a
\* product edge between two parts where a u-node has a target and a later
\* u-node has none.
C14_Witness ==
    /\ pc = "t_done"
    /\ \E e \in Edges(product_graph) :
           LET picks == NaivePicks(SortedNodesOf(e[1]), SortedNodesOf(e[2]))
           IN  \/ \E a, b \in 1..Len(picks) :
                     a < b /\ picks[a] # 0 /\ picks[a] < picks[b]
               \/ /\ e[1] # e[2]
                  /\ \E a, b \in 1..Len(picks) :
                         a < b /\ picks[a] # 0 /\ picks[b] = 0

\* C15: once a builder has its arguments, no step of it changes them: the
\* record list and its records, the product graph, and the caller's event
\* list with its order stay as they were passed.
C15_InputsUnchanged ==
    [][pc # "idle" =>
          /\ bom_data' = bom_data
          /\ product_graph' = product_graph
          /\ events' = events]_vars

\* A network returned for a product graph with an edge and an event list that
\* was passed out of time order.
C15_Witness ==
    /\ pc = "t_done"
    /\ result # None
    /\ Edges(product_graph) # {}
    /\ events # SortEvents(events)
    /\ Len(ReturnedTSN.node.keys) = Len(events)

HasType(g, n) == n \in Nodes(g) /\ "type" \in DOMAIN g.node.val[n]

\* C16: from the end of the node pass on, the nodes of the graph are the parts
\* of the whole record list, each with a type; so both ends of the edge about
\* to be inserted are typed nodes, inserting it adds no node, and every node
\* of the returned graph has a type.
C16_EndpointsAreTypedNodes ==
    pc \in {"g_edges", "g_done"} =>
        /\ Nodes(G) = PartsIn(bom_data)
        /\ \A n \in Nodes(G) : HasType(G, n)
        /\ pc = "g_edges" /\ i <= Len(bom_data) =>
               /\ HasType(G, bom_data[i].Assembly)
               /\ HasType(G, bom_data[i].Component)
               /\ ~EdgeStepRaises(bom_data[i]) =>
                      EdgeStep(G, bom_data[i]).node = G.node
        /\ pc = "g_done" => ReturnedG = G

\* The edge pass about to insert its first edge, whose Component is a part
\* that a later record names as its Assembly.
C16_Witness ==
    /\ pc = "g_edges"
    /\ i = 1
    /\ Len(bom_data) = 2
    /\ ~EdgeStepRaises(bom_data[1])
    /\ Edges(G) = {}
    /\ bom_data[1].Assembly # bom_data[1].Component
    /\ bom_data[2].Assembly = bom_data[1].Component
    /\ bom_data[2].Component \notin {bom_data[1].Assembly, bom_data[1].Component}
    /\ HasType(G, bom_data[2].Component)

\* ===================================================================
\* The production scenario
\* ===================================================================
ScenarioC ==
    <<[node |-> "A", time |-> Int_(0), event_type |-> "start"],
      [node |-> "A", time |-> Int_(5), event_type |-> "complete"],
      [node |-> "B", time |-> Int_(6), event_type |-> "start"]>>

ScenarioCRun ==
    /\ pc = "t_done"
    /\ product_graph = ProductGraphOf(<<Rec("A", "B")>>)
    /\ events = ScenarioC

\* C13: for the product graph with the single edge A->B and the events
\* (A,0,start), (A,5,complete), (B,6,start) the returned network has exactly
\* the nodes A_0, A_5, B_6 and exactly three edges: A_0->A_5 with lead_time 5
\* and no relationship, A_0->B_6 with lead_time 6 and A_5->B_6 with lead_time
\* 1, both with relationship assembly-component.
C13_ScenarioC ==
    ScenarioCRun =>
        /\ Nodes(ReturnedTSN) = {"A_0", "A_5", "B_6"}
        /\ Edges(ReturnedTSN)
               = {<<"A_0", "A_5">>, <<"A_0", "B_6">>, <<"A_5", "B_6">>}
        /\ ReturnedTSN.adj.val[<<"A_0", "A_5">>] = [lead_time |-> Int_(5)]
        /\ ReturnedTSN.adj.val[<<"A_0", "B_6">>]
               = [lead_time |-> Int_(6), relationship |-> "assembly-component"]
        /\ ReturnedTSN.adj.val[<<"A_5", "B_6">>]
               = [lead_time |-> Int_(1), relationship |-> "assembly-component"]

\* The scenario has run to its return and B_6 has two causal edges.
C13_Witness ==
    /\ ScenarioCRun
    /\ result # None
    /\ Cardinality({e \in Edges(ReturnedTSN) :
                       e[2] = "B_6"
                       /\ "relationship" \in DOMAIN ReturnedTSN.adj.val[e]}) = 2

\* ===================================================================
\* Properties of visualize_graph
\* ===================================================================
QueuedRanks == {queue[k][2] : k \in 1..Len(queue)}

\* C20: the rank assignment ends on every graph the builder returns, cycles
\* and self-loops included. A queued rank is the length of a walk from the
\* root that has brought the search to the node. In a search that ends no such
\* walk comes back to a node: once one does, the greatest rank on the cycle it
\* closed is raised by every turn round it and the queue never empties. So
\* the claim says that no node is ever queued at a rank as large as the number
\* of nodes of the graph.
C20_RankAssignmentEnds ==
    pc = "v_bfs" => \A r \in QueuedRanks : r < Cardinality(Nodes(G))

\* ===================================================================
\* Properties of the data generator
\* ===================================================================
\* generate_bom_data has returned its table.
BomGenerated == pc \in {"gen_done", "all_done", "s_raised"}

ComponentsOf(df) == {df[k].Component : k \in 1..Len(df)}

\* C17: in every table generate_bom_data returns, for a supply-type table
\* with a Make part, the root assembly is the Component of no record and
\* every other part of the supply-type table is the Component of some record:
\* the root is the only part without incoming edge and every part is used.
C17_SingleRoot ==
    BomGenerated =>
        /\ root_assembly \in Range(MakeParts(supply_type_df))
        /\ root_assembly \notin ComponentsOf(bom_df)
        /\ Range(AllParts(supply_type_df)) \ {root_assembly} = ComponentsOf(bom_df)
        /\ \A k \in 1..Len(bom_df) :
               bom_df[k].Assembly \in Range(MakeParts(supply_type_df))

\* The record indexes that name part q as their Component.
UsesOf(q) == {k \in 1..Len(bom_df) : bom_df[k].Component = q}

\* A returned table where a regular assembly is a Component only because the
\* second step links it to the root, next to a Buy part that a regular
\* assembly uses; or one where a Buy part is a Component only because the
\* last step links it to the root.
C17_Witness ==
    /\ pc = "gen_done"
    /\ Len(supply_type_df) >= 3
    /\ \/ \E q \in Range(RegularAssemblies(supply_type_df, root_assembly)) :
              /\ \A k \in UsesOf(q) : bom_df[k].Assembly = root_assembly
              /\ \E k \in 1..Len(bom_df) :
                     /\ bom_df[k].Assembly = q
                     /\ bom_df[k].Component \notin Range(MakeParts(supply_type_df))
       \/ \E q \in Range(AllParts(supply_type_df)) :
              /\ q \notin Range(MakeParts(supply_type_df))
              /\ Cardinality(UsesOf(q)) = 1
              /\ \A k \in UsesOf(q) : bom_df[k].Assembly = root_assembly

\* The parts that are a component of part q in df, through n levels at most.
RECURSIVE Below(_, _, _)
Below(df, q, n) ==
    IF n = 0 THEN {}
    ELSE LET direct == {df[k].Component : k \in {m \in 1..Len(df) : df[m].Assembly = q}}
         IN  direct \cup UNION {Below(df, c, n - 1) : c \in direct}

\* C18: every table generate_bom_data returns is a proper hierarchy: no part
\* is, directly or through other parts, a component of itself.
C18_ProperHierarchy ==
    BomGenerated =>
        \A q \in Range(AllParts(supply_type_df)) :
            q \notin Below(bom_df, q, Len(supply_type_df))

\* The tables generate_all_random_data has made, by the keys of the mapping
\* the script reads.
TableKeys ==
    {"part_df", "supply_type_df", "part_source_df", "bom_df",
     "hist_supply_df", "hist_demand_df"}

\* C19: generate_all_random_data returns a mapping with the six tables under
\* their keys, bom_df being the table generate_bom_data made, so the script
\* that subscripts the returned value does not fail.
C19_ReturnsTables ==
    /\ pc = "all_done" =>
           /\ data # None
           /\ DOMAIN data[1] = TableKeys
           /\ data[1].bom_df = bom_df
    /\ pc # "s_raised"

\* The nodes n steps at most below node q.
RECURSIVE Descendants(_, _, _)
Descendants(g, q, n) ==
    IF n = 0 THEN {}
    ELSE LET direct == {e[2] : e \in {d \in Edges(g) : d[1] = q}}
         IN  direct \cup UNION {Descendants(g, c, n - 1) : c \in direct}

Acyclic(g) ==
    \A q \in Nodes(g) : q \notin Descendants(g, q, Cardinality(Nodes(g)))

Max(S) == CHOOSE x \in S : \A y \in S : y <= x

\* The length of the longest path from a node of in-degree 0 to node n of an
\* acyclic graph.
RECURSIVE LongestPath(_, _)
LongestPath(g, n) ==
    IF InDegree(g, n) = 0 THEN 0
    ELSE 1 + Max({LongestPath(g, e[1]) : e \in {d \in Edges(g) : d[2] = n}})

\* C21: when the rank assignment has finished on an acyclic graph, with one
\* root or with several, the rank of every node is the length of the longest
\* path from a root to it; no node keeps rank -1 and every edge goes to a
\* node of greater rank.
C21_RankIsLongestPath ==
    pc = "v_ranked" /\ Acyclic(G) =>
        /\ \A n \in Nodes(G) :
               RankOf(G, n) # -1 /\ RankOf(G, n) = LongestPath(G, n)
        /\ \A e \in Edges(G) : RankOf(G, e[2]) > RankOf(G, e[1])

\* visualize_graph has been called on the graph the builder returned; result
\* keeps that graph as it was at the return, G is the graph object itself.
Visualizing == pc \in {"v_init", "v_root", "v_bfs", "v_ranked", "v_raised"}

\* C22: a call of visualize_graph on a graph the builder returned leaves its
\* node set, its edge set and every node and edge attribute as the builder
\* returned them.
C22_GraphNotMutated ==
    Visualizing =>
        /\ Nodes(G) = Nodes(ReturnedG)
        /\ Edges(G) = Edges(ReturnedG)
        /\ \A n \in Nodes(G) : G.node.val[n] = ReturnedG.node.val[n]
        /\ \A e \in Edges(G) : G.adj.val[e] = ReturnedG.adj.val[e]

\* ===================================================================
\* Direction of the time-space edges
\* ===================================================================
IntegerTimes == \A k \in 1..Len(events) : ~events[k].time.f

\* C23: when every event time is an integer, every edge of the returned
\* network, chronological or causal, goes to a node of strictly greater time;
\* the network has no self-loop and no cycle, whatever the product graph.
C23_EdgesGoForwardInTime ==
    pc = "t_done" /\ IntegerTimes =>
        /\ \A e \in Edges(ReturnedTSN) :
               /\ NumLt(TimeOf(ReturnedTSN, e[1]), TimeOf(ReturnedTSN, e[2]))
               /\ e[1] # e[2]
        /\ Acyclic(ReturnedTSN)

\* A network returned for integer times and a product graph with a cycle
\* between two parts, with causal edges in both directions; or for a product
\* graph with a self-loop, with a causal edge between two nodes of one part.
C23_Witness ==
    /\ pc = "t_done"
    /\ IntegerTimes
    /\ \/ \E e \in Edges(product_graph) :
              /\ e[1] # e[2]
              /\ <<e[2], e[1]>> \in Edges(product_graph)
              /\ \E c, d \in CausalEdges(ReturnedTSN) :
                     /\ OriginalOf(ReturnedTSN, c[1]) = e[1]
                     /\ OriginalOf(ReturnedTSN, c[2]) = e[2]
                     /\ d[1] = c[2]
                     /\ OriginalOf(ReturnedTSN, d[2]) = e[1]
       \/ \E e \in Edges(product_graph) :
              /\ e[1] = e[2]
              /\ CausalEdges(ReturnedTSN) \cap SameOriginalEdges(ReturnedTSN) # {}
====
